---------------------------- MODULE Spec2Model ----------------------------
(***************************************************************************)
(* State-machine model of ChessComBot (src/my_bot.py): the run() wrapper,  *)
(* the game loop play_game_loop(), the engine query calculate_best_move(), *)
(* the strategy chain execute_move() with its three strategies, the move   *)
(* log and cleanup().                                                      *)
(*                                                                         *)
(* The program is single threaded; `pc' is the position of that thread.    *)
(* The browser page, the engine process and the operator are the           *)
(* environment: every answer they can give is an existentially quantified  *)
(* input of the action that asks for it.  Wall-clock values (timestamps,   *)
(* sleep lengths) are not modelled.                                        *)
(***************************************************************************)
EXTENDS Integers, Sequences, FiniteSets, TLC

VARIABLES
    pc,                    \* position of the single thread of control
    runs,                  \* number of run() calls started on this bot object
    log_moves,             \* self.log_moves
    move_log,              \* self.move_log
    engine,                \* self.engine : "None" | "open" | "closed"
    driver,                \* self.driver : "None" | "open" | "closed"
    max_moves,             \* parameter of play_game_loop
    moves_played,          \* local of play_game_loop
    consecutive_failures,  \* local of play_game_loop
    current_board,         \* local of play_game_loop (chess.Board)
    best_move,             \* local of play_game_loop (chess.Move or None)
    method_idx,            \* index of execute_move's for loop over methods
    exec_result,           \* value returned by the last execute_move call
    exit_reason,           \* branch by which the while loop was left
    ui_actions,            \* history: UI actions dispatched by the strategy that ran last in the current execute_move call
    acted,                 \* history: methods that dispatched a UI action in the current execute_move call
    invoked,               \* history: <<method, result>> of the strategies invoked in the current call
    req_board,             \* history: board passed to the latest engine.play request of this loop
    turn_failed,           \* history: the previous turn of this loop ended without an applied move
    fail_streak,           \* history: failed execute_move calls since the last applied move, counted up to max_failures
    log_base,              \* history: Len(move_log) when the current game loop started
    save_attempted,        \* history: save_move_log was called in the current run
    engine_acquired,       \* history: engine processes started by setup_engine in the current run
    engine_quit_attempted, \* history: cleanup called engine.quit() in the current run
    calc_condition,        \* history: what the last calculate_best_move met, until the loop's next step
    emitted,               \* what the current game loop logged on leaving the loop: outcome message and final summary
    probe                  \* input and result of a function applied on its own (geometry)

vars == <<pc, runs, log_moves, move_log, engine, driver, max_moves, moves_played,
          consecutive_failures, current_board, best_move, method_idx, exec_result,
          exit_reason, ui_actions, acted, invoked, req_board, turn_failed, fail_streak,
          log_base, save_attempted, engine_acquired, engine_quit_attempted,
          calc_condition, emitted, probe>>

---------------------------------------------------------------------------
(* Bounds of the model *)

MaxMoves == 2       \* largest max_moves argument explored
MaxRuns == 1        \* run() calls explored on one bot object

---------------------------------------------------------------------------
(* Values *)

\* Python's None for a string-valued field
None == "None"

\* An Optional[chess.Move] or Optional[chess.Board] value: <<>> is None,
\* <<v>> is the value v
Nothing == <<>>
Some(v) == <<v>>

max_failures == 3

\* chess.square_name: squares are 0..63, file = sq % 8, rank = sq \div 8
FILE_NAMES == <<"a", "b", "c", "d", "e", "f", "g", "h">>
RANK_NAMES == <<"1", "2", "3", "4", "5", "6", "7", "8">>
square_name(sq) == FILE_NAMES[(sq % 8) + 1] \o RANK_NAMES[(sq \div 8) + 1]

\* chess.Move: from_square, to_square, promotion ("" when absent)
Mv(f, t, p) == [from_square |-> f, to_square |-> t, promotion |-> p]

\* The moves the engine may answer with: a7a8q, a7a8n and g7h8.  The first
\* two differ only in the promotion piece.
Moves == { Mv(48, 56, "q"), Mv(48, 56, "n"), Mv(54, 63, "") }

\* str(move): the UCI text of a move
uci(m) == square_name(m.from_square) \o square_name(m.to_square) \o m.promotion

\* chess.Board: the move stack and the side to move (TRUE = chess.WHITE)
NewBoard == [move_stack |-> <<>>, turn |-> TRUE]

\* Variant: the move is put on the stack and the side to move stays
push_keeps_turn(b, m) == [move_stack |-> Append(b.move_stack, m), turn |-> b.turn]

push(b, m) == [move_stack |-> Append(b.move_stack, m), turn |-> ~b.turn]

\* Rules of the abstract game played on the board model: g7h8 mates, the
\* underpromotion a7a8n stalemates, the position after any other move is
\* still in play.
MatingMoves == { Mv(54, 63, "") }
StalematingMoves == { Mv(48, 56, "n") }

LastMove(b) == b.move_stack[Len(b.move_stack)]

is_checkmate(b) == Len(b.move_stack) > 0 /\ LastMove(b) \in MatingMoves
is_stalemate(b) == Len(b.move_stack) > 0 /\ LastMove(b) \in StalematingMoves
\* Variant: only checkmate ends the game
is_game_over_checkmate_only(b) == is_checkmate(b)

is_game_over(b) == is_checkmate(b) \/ is_stalemate(b)

\* Board.result(): the side that is to move in a checkmate has lost
result(b) == IF is_checkmate(b) THEN (IF b.turn THEN "0-1" ELSE "1-0")
             ELSE IF is_stalemate(b) THEN "1/2-1/2"
             ELSE "*"

Min(a, b) == IF a < b THEN a ELSE b

---------------------------------------------------------------------------
(* The three strategies.  Each is a function of the move and of what the   *)
(* page answers; it yields the value it returns (an exception it catches   *)
(* is a return of False) and the UI actions it dispatched on the way.      *)

Act(by, act, arg) == [by |-> by, act |-> act, arg |-> arg]

\* The widths and heights a board rect is given (pixels)
BoardSizes == {0, 8, 16, 100, 800}
BoardRects == { [width |-> w, height |-> h] : w \in BoardSizes, h \in BoardSizes }

\* find_square_by_position reads the indices off the two characters of the
\* square's name: ord(file_char) - ord('a') and int(rank_char) - 1
\* (the two readings are tabulated once for the 64 names).
SquareNames == { square_name(sq) : sq \in 0..63 }
FileIndexOfName ==
    [square \in SquareNames |->
       CHOOSE f \in 0..7 : \E r \in 1..8 : square = FILE_NAMES[f + 1] \o RANK_NAMES[r]]
RankIndexOfName ==
    [square \in SquareNames |->
       (CHOOSE d \in 1..8 : \E f \in 1..8 : square = FILE_NAMES[f] \o RANK_NAMES[d]) - 1]
file_index(square) == FileIndexOfName[square]
rank_index(square) == RankIndexOfName[square]

\* find_square_by_position(square): None when the board root is not found,
\* else the position data of the square within the board
find_square_by_position(square, root_found) ==
    IF ~root_found THEN Nothing
    ELSE Some([element |-> "wc-chess-board",
               file_index |-> file_index(square),
               rank_index |-> rank_index(square),
               square |-> square])

\* The selector patterns find_square_element tries, in this order
square_selectors(square) ==
    << "[data-square='" \o square \o "']",
       ".square-" \o square,
       "#" \o square,
       "[class*='" \o square \o "']" >>

\* What the page answers to the lookup of one selector pattern:
\*   absent     NoSuchElementException
\*   hidden     an element that is not displayed
\*   displayed  an element that is displayed
\*   raise      another error of the lookup or of is_displayed()
SelectorKinds == {"absent", "hidden", "displayed", "raise"}

\* A page as the locator sees it: the answer to each selector pattern and
\* whether the board root is found
LocatorPages == [sel : [1..4 -> SelectorKinds], root : BOOLEAN]

\* The for loop of find_square_element from pattern i on, `queries' being
\* the lookups made so far; after the last pattern the square is resolved by
\* position from the board root
RECURSIVE try_selectors(_, _, _, _)
try_selectors(square, page, i, queries) ==
    IF i > Len(square_selectors(square))
    THEN [result |-> find_square_by_position(square, page.root),
          queries |-> Append(queries, "wc-chess-board")]
    ELSE LET asked == Append(queries, square_selectors(square)[i])
         IN  IF page.sel[i] = "displayed"
             THEN [result |-> Some([element |-> square_selectors(square)[i]]), queries |-> asked]
             ELSE IF page.sel[i] = "raise"
             THEN [result |-> Nothing, queries |-> asked]
             ELSE try_selectors(square, page, i + 1, asked)

\* find_square_element(square): the element found and the lookups made
find_square_element(square, page) == try_selectors(square, page, 1, <<>>)

\* The resolution of a square as execute_move_with_drag_drop does it
drag_drop_resolution(square, page) ==
    [result |-> find_square_by_position(square, page.root),
     queries |-> <<"wc-chess-board">>]

\* Variant: the ranks are counted from the top of the board
get_square_center_coordinates_top_down(square_info, rect) ==
    IF rect = Nothing THEN <<0, 0>>
    ELSE LET square_width16 == 2 * rect[1].width
             square_height16 == 2 * rect[1].height
             x_offset16 == (square_info.file_index * square_width16) + (square_width16 \div 2)
             y_offset16 == (square_info.rank_index * square_height16) + (square_height16 \div 2)
         IN  <<x_offset16 \div 16, y_offset16 \div 16>>

\* get_square_center_coordinates(square_info) for a board whose rect is
\* `rect' (Nothing when reading it raises: the except clause returns 0, 0).
\* The float values of the code are held exactly, in sixteenths of a pixel:
\* square_width = W / 8 is 2W sixteenths.  int() cuts the fraction off.
get_square_center_coordinates(square_info, rect) ==
    IF rect = Nothing THEN <<0, 0>>
    ELSE LET square_width16 == 2 * rect[1].width
             square_height16 == 2 * rect[1].height
             x_offset16 == (square_info.file_index * square_width16) + (square_width16 \div 2)
             y_offset16 == ((7 - square_info.rank_index) * square_height16) + (square_height16 \div 2)
         IN  <<x_offset16 \div 16, y_offset16 \div 16>>

Prefix(s, k) == SubSeq(s, 1, Min(k, Len(s)))

\* The pointer sequence built in execute_move_with_drag_drop
PointerSequence(move) ==
    << Act("drag_drop", "move_to", square_name(move.from_square)),
       Act("drag_drop", "press", square_name(move.from_square)),
       Act("drag_drop", "move_to", square_name(move.to_square)),
       Act("drag_drop", "release", square_name(move.to_square)) >>

\* Boards the pointer-drag strategy is run against
DragRects == { r \in BoardRects : r.height = 800 /\ r.width \in {8, 100, 800} }

\* Answers of the page to the pointer-drag strategy:
\*   from_found, to_found  whether find_square_by_position finds the board
\*                         for the origin and for the destination
\*   rect                  the board's rect, Nothing when it cannot be read
\*   scroll                "raise" when the scrollIntoView script raises
\*   sent                  pointer actions dispatched before actions.perform()
\*                         raises; 4 when the whole sequence is dispatched
DragPageAnswers ==
    [from_found : BOOLEAN, to_found : BOOLEAN,
     rect : {Nothing} \cup { Some(r) : r \in DragRects },
     scroll : {"ok", "raise"}, sent : 0..4]

\* The answers that differ in a part of the page the strategy reaches, for a
\* board that is unreadable or 800 x 800; a part the strategy does not reach
\* is left at its default.
DragAnswers ==
    LET full_board == [width |-> 800, height |-> 800]
    IN  { [from_found |-> f, to_found |-> t, rect |-> Nothing, scroll |-> "ok", sent |-> 0] :
            f \in BOOLEAN, t \in BOOLEAN }
        \cup { [from_found |-> TRUE, to_found |-> TRUE, rect |-> Some(full_board),
                scroll |-> "raise", sent |-> 0] }
        \cup { [from_found |-> TRUE, to_found |-> TRUE, rect |-> Some(full_board),
                scroll |-> "ok", sent |-> n] : n \in 0..4 }

\* Variant: the pointer is moved to the origin and pressed before the
\* coordinates are tested
execute_move_with_drag_drop_press_first(move, ans) ==
    LET from_square_info == find_square_by_position(square_name(move.from_square), ans.from_found)
        to_square_info == find_square_by_position(square_name(move.to_square), ans.to_found)
    IN  IF from_square_info = Nothing \/ to_square_info = Nothing
        THEN [ok |-> FALSE, acts |-> <<>>]
        ELSE LET from_xy == get_square_center_coordinates(from_square_info[1], ans.rect)
                 to_xy == get_square_center_coordinates(to_square_info[1], ans.rect)
             IN  IF from_xy[1] = 0 \/ to_xy[1] = 0
                 THEN [ok |-> FALSE, acts |-> Prefix(PointerSequence(move), 2)]
                 ELSE IF ans.scroll = "raise"
                 THEN [ok |-> FALSE, acts |-> <<>>]
                 ELSE IF ans.sent < Len(PointerSequence(move))
                 THEN [ok |-> FALSE, acts |-> Prefix(PointerSequence(move), ans.sent)]
                 ELSE [ok |-> TRUE, acts |-> PointerSequence(move)]

execute_move_with_drag_drop(move, ans) ==
    LET from_square_info == find_square_by_position(square_name(move.from_square), ans.from_found)
        to_square_info == find_square_by_position(square_name(move.to_square), ans.to_found)
    IN  IF from_square_info = Nothing \/ to_square_info = Nothing
        THEN [ok |-> FALSE, acts |-> <<>>]
        ELSE LET from_xy == get_square_center_coordinates(from_square_info[1], ans.rect)
                 to_xy == get_square_center_coordinates(to_square_info[1], ans.rect)
             IN  IF from_xy[1] = 0 \/ to_xy[1] = 0
                 THEN [ok |-> FALSE, acts |-> <<>>]
                 ELSE IF ans.scroll = "raise"
                 THEN [ok |-> FALSE, acts |-> <<>>]
                 ELSE IF ans.sent < Len(PointerSequence(move))
                 THEN [ok |-> FALSE, acts |-> Prefix(PointerSequence(move), ans.sent)]
                 ELSE [ok |-> TRUE, acts |-> PointerSequence(move)]

\* Answers of the page to the scripted-injection strategy:
\*   script  "raise" when driver.execute_script itself raises
\*   root    whether document.querySelector('wc-chess-board') finds the board
\*   game    board.game.move: "absent" | "falsy" | "truthy" | "throws"
\*   board   board.move:      "absent" | "falsy" | "truthy" | "throws"
\*   squares whether both per-square elements are found
MethodKinds == {"absent", "falsy", "truthy", "throws"}

JsPageAnswers ==
    [script : {"ok", "raise"}, root : BOOLEAN, game : MethodKinds,
     board : MethodKinds, squares : BOOLEAN]

\* The answers that differ in a part of the page the script reaches; a part
\* it does not reach is left at "absent" / FALSE.
JsAnswers ==
    { [script |-> "raise", root |-> FALSE, game |-> "absent", board |-> "absent", squares |-> FALSE],
      [script |-> "ok", root |-> FALSE, game |-> "absent", board |-> "absent", squares |-> FALSE] }
    \cup { [script |-> "ok", root |-> TRUE, game |-> g, board |-> "absent", squares |-> FALSE] :
             g \in {"truthy", "throws"} }
    \cup { [script |-> "ok", root |-> TRUE, game |-> g, board |-> b, squares |-> FALSE] :
             g \in {"absent", "falsy"}, b \in {"truthy", "throws"} }
    \cup { [script |-> "ok", root |-> TRUE, game |-> g, board |-> b, squares |-> s] :
             g \in {"absent", "falsy"}, b \in {"absent", "falsy"}, s \in BOOLEAN }

JsArg(move) == square_name(move.from_square) \o square_name(move.to_square)

JsMouseEvents(move) ==
    << Act("javascript", "mousedown", square_name(move.from_square)),
       Act("javascript", "click", square_name(move.from_square)),
       Act("javascript", "mouseup", square_name(move.to_square)),
       Act("javascript", "click", square_name(move.to_square)) >>

\* sub-attempt (c): per-square press/release events
JsSquares(move, ans, done) ==
    IF ans.squares
    THEN [ok |-> TRUE, acts |-> done \o JsMouseEvents(move)]
    ELSE [ok |-> FALSE, acts |-> done]

\* sub-attempt (b): board.move(fromSquare, toSquare)
JsBoardMove(move, ans, done) ==
    IF ans.board = "absent" THEN JsSquares(move, ans, done)
    ELSE LET sent == Append(done, Act("javascript", "board.move", JsArg(move)))
         IN  IF ans.board = "truthy" THEN [ok |-> TRUE, acts |-> sent]
             ELSE IF ans.board = "throws" THEN [ok |-> FALSE, acts |-> sent]
             ELSE JsSquares(move, ans, sent)

\* Variant: board.move is tried after game.move whatever game.move returned
JsGameMove_falls_through(move, ans) ==
    IF ans.game = "absent" THEN JsBoardMove(move, ans, <<>>)
    ELSE LET sent == <<Act("javascript", "game.move", JsArg(move))>>
         IN  IF ans.game = "throws" THEN [ok |-> FALSE, acts |-> sent]
             ELSE JsBoardMove(move, ans, sent)

\* sub-attempt (a): board.game.move({from, to})
JsGameMove(move, ans) ==
    IF ans.game = "absent" THEN JsBoardMove(move, ans, <<>>)
    ELSE LET sent == <<Act("javascript", "game.move", JsArg(move))>>
         IN  IF ans.game = "truthy" THEN [ok |-> TRUE, acts |-> sent]
             ELSE IF ans.game = "throws" THEN [ok |-> FALSE, acts |-> sent]
             ELSE JsBoardMove(move, ans, sent)

execute_move_with_javascript(move, ans) ==
    IF ans.script = "raise" \/ ~ans.root
    THEN [ok |-> FALSE, acts |-> <<>>]
    ELSE JsGameMove(move, ans)

\* Answers of the page to the notation-entry strategy:
\*   no_root      find_element(wc-chess-board) raises
\*   click_raise  board.click() raises
\*   keys_raise   the keystroke chain raises after the click
\*   ok           click, keystrokes and ENTER are dispatched
KeyboardAnswers == {"no_root", "click_raise", "keys_raise", "ok"}

\* Variant: the keystrokes are the UCI text of the move, promotion included
KeyboardSequence_uci(move) ==
    << Act("keyboard", "click", "board"),
       Act("keyboard", "send_keys", uci(move)),
       Act("keyboard", "send_keys", "ENTER") >>

KeyboardSequence(move) ==
    << Act("keyboard", "click", "board"),
       Act("keyboard", "send_keys",
           square_name(move.from_square) \o square_name(move.to_square)),
       Act("keyboard", "send_keys", "ENTER") >>

\* Variant: the keystrokes are sent to the page when the board is not found
execute_move_with_keyboard_unfocused(move, ans) ==
    IF ans = "no_root" THEN [ok |-> TRUE, acts |-> SubSeq(KeyboardSequence(move), 2, 3)]
    ELSE IF ans = "click_raise" THEN [ok |-> FALSE, acts |-> <<>>]
    ELSE IF ans = "keys_raise"
    THEN [ok |-> FALSE, acts |-> Prefix(KeyboardSequence(move), 1)]
    ELSE [ok |-> TRUE, acts |-> KeyboardSequence(move)]

execute_move_with_keyboard(move, ans) ==
    IF ans \in {"no_root", "click_raise"} THEN [ok |-> FALSE, acts |-> <<>>]
    ELSE IF ans = "keys_raise"
    THEN [ok |-> FALSE, acts |-> Prefix(KeyboardSequence(move), 1)]
    ELSE [ok |-> TRUE, acts |-> KeyboardSequence(move)]

\* Variant: the scripted injection is listed before the pointer drag
methods_javascript_first == <<"javascript", "drag_drop", "keyboard">>

\* execute_move's ordered list of methods
methods == <<"drag_drop", "javascript", "keyboard">>

\* What the page can answer to the strategy at position i of the list
MethodAnswers(i) ==
    IF methods[i] = "drag_drop" THEN DragAnswers
    ELSE IF methods[i] = "javascript" THEN JsAnswers
    ELSE KeyboardAnswers

\* Variant: the result of the notation-entry strategy is taken as a failure
RunMethod_keyboard_unconfirmed(i, move, ans) ==
    IF methods[i] = "drag_drop" THEN execute_move_with_drag_drop(move, ans)
    ELSE IF methods[i] = "javascript" THEN execute_move_with_javascript(move, ans)
    ELSE [ok |-> FALSE, acts |-> execute_move_with_keyboard(move, ans).acts]

\* The strategy at position i of the list, run against the page's answer
RunMethod(i, move, ans) ==
    IF methods[i] = "drag_drop" THEN execute_move_with_drag_drop(move, ans)
    ELSE IF methods[i] = "javascript" THEN execute_move_with_javascript(move, ans)
    ELSE execute_move_with_keyboard(move, ans)

\* Variant: the record's move text is built from the two squares only
move_entry_squares_only(move, method_name) ==
    [move |-> square_name(move.from_square) \o square_name(move.to_square),
     from |-> square_name(move.from_square),
     to |-> square_name(move.to_square),
     method |-> method_name]

\* The record execute_move appends for a successful method
move_entry(move, method_name) ==
    [move |-> uci(move),
     from |-> square_name(move.from_square),
     to |-> square_name(move.to_square),
     method |-> method_name]

---------------------------------------------------------------------------
(* Initial state: a freshly constructed bot, run() not yet called *)

\* The message the loop logs on the branch by which it is left; the while
\* test failing logs none
exit_message(reason) ==
    CASE reason = "1-0" -> "Game Over: White wins!"
      [] reason = "0-1" -> "Game Over: Black wins!"
      [] reason = "1/2-1/2" -> "Game Over: Draw!"
      [] reason = "failures" -> "Too many move execution failures, stopping"
      [] reason = "interrupt" -> "Game loop interrupted by user"
      [] OTHER -> None

\* The final game summary: the number of moves played and the final
\* position, or only "No moves were played"
summary_text(played, board) ==
    IF played > 0
    THEN [moves_played |-> played, final_position |-> Some(board)]
    ELSE [moves_played |-> 0, final_position |-> Nothing]

NothingEmitted == [outcome |-> None, summary |-> Nothing]

SleepPcs == {"sleep_none", "sleep_fail", "sleep_next"}

\* Locals of play_game_loop and of execute_move outside a game loop
NoLoopLocals ==
    /\ moves_played = 0
    /\ consecutive_failures = 0
    /\ current_board = NewBoard
    /\ best_move = Nothing
    /\ method_idx = 1
    /\ exec_result = FALSE
    /\ ui_actions = <<>>
    /\ acted = {}
    /\ invoked = <<>>
    /\ req_board = Nothing
    /\ turn_failed = FALSE
    /\ calc_condition = None
    /\ fail_streak = 0

Init ==
    /\ pc = "idle"
    /\ runs = 0
    /\ log_moves \in BOOLEAN
    /\ move_log = <<>>
    /\ engine = None
    /\ driver = None
    /\ max_moves = 0
    /\ exit_reason = None
    /\ log_base = 0
    /\ save_attempted = FALSE
    /\ engine_acquired = 0
    /\ engine_quit_attempted = FALSE
    /\ emitted = NothingEmitted
    /\ probe = Nothing
    /\ NoLoopLocals

botVars == <<log_moves, move_log, engine, driver>>
loopVars == <<moves_played, consecutive_failures, current_board, best_move, exit_reason>>
execVars == <<method_idx, exec_result, ui_actions, acted, invoked>>
histVars == <<req_board, turn_failed, fail_streak, log_base, calc_condition>>
engineHist == <<engine_acquired, engine_quit_attempted>>

---------------------------------------------------------------------------
(* run(): setup, login, navigation *)

\* run(username, password, max_moves) is entered
run ==
    /\ pc = "idle"
    /\ runs < MaxRuns
    /\ \E mm \in 0..MaxMoves : max_moves' = mm
    /\ runs' = runs + 1
    /\ save_attempted' = FALSE
    /\ engine_acquired' = 0
    /\ engine_quit_attempted' = FALSE
    /\ emitted' = NothingEmitted
    /\ pc' = "setup_browser"
    /\ UNCHANGED <<botVars, loopVars, execVars, histVars, probe>>

\* setup_browser(): "ok", or an error before or after self.driver is assigned
setup_browser ==
    /\ pc = "setup_browser"
    /\ \E ans \in {"ok", "raise_before", "raise_after"} :
         /\ driver' = IF ans = "raise_before" THEN driver ELSE "open"
         /\ pc' = IF ans = "ok" THEN "setup_engine" ELSE "cleanup"
    /\ UNCHANGED <<runs, log_moves, move_log, engine, max_moves, loopVars,
                   execVars, histVars, save_attempted, engineHist, emitted, probe>>

\* setup_engine(): "ok", or an error before or after self.engine is assigned
setup_engine ==
    /\ pc = "setup_engine"
    /\ \E ans \in {"ok", "raise_before", "raise_after"} :
         /\ engine' = IF ans = "raise_before" THEN engine ELSE "open"
         /\ engine_acquired' = IF ans = "raise_before" THEN engine_acquired
                                ELSE engine_acquired + 1
         /\ pc' = IF ans = "ok" THEN "login" ELSE "cleanup"
    /\ UNCHANGED <<runs, log_moves, move_log, driver, max_moves, loopVars,
                   execVars, histVars, save_attempted, engine_quit_attempted, emitted, probe>>

\* login() returns True or False; False makes run() raise
login ==
    /\ pc = "login"
    /\ \E ok \in BOOLEAN : pc' = IF ok THEN "navigate" ELSE "cleanup"
    /\ UNCHANGED <<runs, botVars, max_moves, loopVars, execVars, histVars,
                   save_attempted, engineHist, emitted, probe>>

\* navigate_to_analysis_board() returns True or False; False makes run() raise
navigate_to_analysis_board ==
    /\ pc = "navigate"
    /\ \E ok \in BOOLEAN : pc' = IF ok THEN "loop_start" ELSE "cleanup"
    /\ UNCHANGED <<runs, botVars, max_moves, loopVars, execVars, histVars,
                   save_attempted, engineHist, emitted, probe>>

---------------------------------------------------------------------------
(* play_game_loop() *)

\* Entry of play_game_loop: the locals are initialised
play_game_loop ==
    /\ pc = "loop_start"
    /\ moves_played' = 0
    /\ consecutive_failures' = 0
    /\ current_board' = NewBoard
    /\ best_move' = Nothing
    /\ exit_reason' = None
    /\ req_board' = Nothing
    /\ turn_failed' = FALSE
    /\ calc_condition' = None
    /\ fail_streak' = 0
    /\ log_base' = Len(move_log)
    /\ emitted' = NothingEmitted
    /\ pc' = "head"
    /\ UNCHANGED <<runs, botVars, max_moves, execVars, save_attempted, engineHist, probe>>

\* Variant: the while test lets the loop run once more at moves_played = max_moves
loop_head_inclusive ==
    /\ pc = "head"
    /\ IF ~(moves_played <= max_moves)
       THEN /\ pc' = "summary"
            /\ exit_reason' = "limit"
            /\ emitted' = [emitted EXCEPT !.outcome = exit_message("limit")]
            /\ UNCHANGED consecutive_failures
       ELSE IF is_game_over(current_board)
       THEN /\ pc' = "summary"
            /\ exit_reason' = result(current_board)
            /\ emitted' = [emitted EXCEPT !.outcome = exit_message(result(current_board))]
            /\ UNCHANGED consecutive_failures
       ELSE /\ consecutive_failures' = 0
            /\ pc' = "think"
            /\ UNCHANGED <<exit_reason, emitted>>
    /\ UNCHANGED <<runs, botVars, max_moves, moves_played, current_board,
                   best_move, execVars, histVars, save_attempted, engineHist, probe>>

\* Head of an iteration: the while test, the game-over check and the reset
\* of the failure counter
loop_head ==
    /\ pc = "head"
    /\ IF ~(moves_played < max_moves)
       THEN /\ pc' = "summary"
            /\ exit_reason' = "limit"
            /\ emitted' = [emitted EXCEPT !.outcome = exit_message("limit")]
            /\ UNCHANGED consecutive_failures
       ELSE IF is_game_over(current_board)
       THEN /\ pc' = "summary"
            /\ exit_reason' = result(current_board)
            /\ emitted' = [emitted EXCEPT !.outcome = exit_message(result(current_board))]
            /\ UNCHANGED consecutive_failures
       ELSE /\ consecutive_failures' = 0
            /\ pc' = "think"
            /\ UNCHANGED <<exit_reason, emitted>>
    /\ UNCHANGED <<runs, botVars, max_moves, moves_played, current_board,
                   best_move, execVars, histVars, save_attempted, engineHist, probe>>

\* Answers of the engine process to engine.play
\*   move     result.move is a move
\*   no_move  result.move is None
\*   raise    engine.play raises (the process died, a protocol error)
EngineAnswers ==
    { [kind |-> "move", move |-> Some(m)] : m \in Moves }
    \cup { [kind |-> k, move |-> Nothing] : k \in {"no_move", "raise"} }

\* calculate_best_move(current_board) and the test of its result
calculate_best_move ==
    /\ pc = "think"
    /\ IF is_game_over(current_board)
       THEN /\ best_move' = Nothing
            /\ calc_condition' = "game_over"
            /\ UNCHANGED req_board
       ELSE \E ans \in EngineAnswers :
              /\ req_board' = Some(current_board)
              /\ best_move' = ans.move
              /\ calc_condition' = ans.kind
    /\ IF best_move' = Nothing
       THEN /\ pc' = "sleep_none"
            /\ turn_failed' = TRUE
            /\ UNCHANGED execVars
       ELSE /\ pc' = "exec"
            /\ method_idx' = 1
            /\ exec_result' = FALSE
            /\ ui_actions' = <<>>
            /\ acted' = {}
            /\ invoked' = <<>>
            /\ UNCHANGED turn_failed
    /\ UNCHANGED <<runs, botVars, max_moves, moves_played, consecutive_failures,
                   current_board, exit_reason, fail_streak, log_base, save_attempted, engineHist, emitted, probe>>

\* Variant: False is returned as soon as a method has failed
try_method_gives_up(ans) ==
    /\ pc = "exec"
    /\ LET r == RunMethod(method_idx, best_move[1], ans)
       IN  /\ ui_actions' = r.acts
           /\ acted' = IF r.acts # <<>> THEN acted \cup {methods[method_idx]} ELSE acted
           /\ invoked' = Append(invoked, <<methods[method_idx], r.ok>>)
           /\ IF r.ok
              THEN /\ move_log' = IF log_moves
                                  THEN Append(move_log, move_entry(best_move[1], methods[method_idx]))
                                  ELSE move_log
                   /\ exec_result' = TRUE
                   /\ pc' = "exec_ret"
                   /\ UNCHANGED method_idx
              ELSE /\ exec_result' = FALSE
                   /\ pc' = "exec_ret"
                   /\ UNCHANGED <<move_log, method_idx>>
    /\ UNCHANGED <<runs, log_moves, engine, driver, max_moves, loopVars,
                   histVars, save_attempted, engineHist, emitted>>

\* One pass of execute_move's for loop against the page's answer `ans': the
\* method at method_idx is tried; on success the record is appended and True
\* returned, after the last method False is returned
try_method(ans) ==
    /\ pc = "exec"
    /\ LET r == RunMethod(method_idx, best_move[1], ans)
       IN  /\ ui_actions' = r.acts
           /\ acted' = IF r.acts # <<>> THEN acted \cup {methods[method_idx]} ELSE acted
           /\ invoked' = Append(invoked, <<methods[method_idx], r.ok>>)
           /\ IF r.ok
              THEN /\ move_log' = IF log_moves
                                  THEN Append(move_log, move_entry(best_move[1], methods[method_idx]))
                                  ELSE move_log
                   /\ exec_result' = TRUE
                   /\ pc' = "exec_ret"
                   /\ UNCHANGED method_idx
              ELSE IF method_idx < Len(methods)
              THEN /\ method_idx' = method_idx + 1
                   /\ UNCHANGED <<move_log, exec_result, pc>>
              ELSE /\ exec_result' = FALSE
                   /\ pc' = "exec_ret"
                   /\ UNCHANGED <<move_log, method_idx>>
    /\ UNCHANGED <<runs, log_moves, engine, driver, max_moves, loopVars,
                   histVars, save_attempted, engineHist, emitted>>

execute_move ==
    /\ \E ans \in MethodAnswers(method_idx) : try_method(ans)
    /\ UNCHANGED probe

\* Variant: the move is counted and pushed whatever execute_move returned
apply_move_unchecked ==
    /\ pc = "exec_ret"
    /\ moves_played' = moves_played + 1
    /\ current_board' = push(current_board, best_move[1])
    /\ turn_failed' = FALSE
    /\ calc_condition' = None
    /\ fail_streak' = 0
    /\ ui_actions' = <<>>
    /\ acted' = {}
    /\ invoked' = <<>>
    /\ pc' = "sleep_next"
    /\ UNCHANGED <<runs, botVars, max_moves, consecutive_failures, best_move,
                   exit_reason, method_idx, exec_result, req_board, log_base,
                   save_attempted, engineHist, emitted, probe>>

\* execute_move returned True: the move is counted and pushed on the board
apply_move ==
    /\ pc = "exec_ret"
    /\ exec_result
    /\ moves_played' = moves_played + 1
    /\ current_board' = push(current_board, best_move[1])
    /\ turn_failed' = FALSE
    /\ calc_condition' = None
    /\ fail_streak' = 0
    /\ ui_actions' = <<>>
    /\ acted' = {}
    /\ invoked' = <<>>
    /\ pc' = "sleep_next"
    /\ UNCHANGED <<runs, botVars, max_moves, consecutive_failures, best_move,
                   exit_reason, method_idx, exec_result, req_board, log_base,
                   save_attempted, engineHist, emitted, probe>>

\* Variant: a failed execution is counted as a failure and the board is
\* advanced all the same
on_failure_advances_board ==
    /\ pc = "exec_ret"
    /\ ~exec_result
    /\ consecutive_failures' = consecutive_failures + 1
    /\ fail_streak' = Min(fail_streak + 1, max_failures)
    /\ turn_failed' = TRUE
    /\ calc_condition' = None
    /\ current_board' = push(current_board, best_move[1])
    /\ ui_actions' = <<>>
    /\ acted' = {}
    /\ invoked' = <<>>
    /\ IF consecutive_failures' >= max_failures
       THEN /\ pc' = "summary"
            /\ exit_reason' = "failures"
            /\ emitted' = [emitted EXCEPT !.outcome = exit_message("failures")]
       ELSE /\ pc' = "sleep_fail"
            /\ UNCHANGED <<exit_reason, emitted>>
    /\ UNCHANGED <<runs, botVars, max_moves, moves_played,
                   best_move, method_idx, exec_result, req_board, log_base,
                   save_attempted, engineHist, emitted, probe>>

\* execute_move returned False: the failure is counted against max_failures
on_failure ==
    /\ pc = "exec_ret"
    /\ ~exec_result
    /\ consecutive_failures' = consecutive_failures + 1
    /\ fail_streak' = Min(fail_streak + 1, max_failures)
    /\ turn_failed' = TRUE
    /\ calc_condition' = None
    /\ ui_actions' = <<>>
    /\ acted' = {}
    /\ invoked' = <<>>
    /\ IF consecutive_failures' >= max_failures
       THEN /\ pc' = "summary"
            /\ exit_reason' = "failures"
            /\ emitted' = [emitted EXCEPT !.outcome = exit_message("failures")]
       ELSE /\ pc' = "sleep_fail"
            /\ UNCHANGED <<exit_reason, emitted>>
    /\ UNCHANGED <<runs, botVars, max_moves, moves_played, current_board,
                   best_move, method_idx, exec_result, req_board, log_base,
                   save_attempted, engineHist, emitted, probe>>

\* A sleep of the loop ends and the next iteration starts
wake ==
    /\ pc \in SleepPcs
    /\ pc' = "head"
    /\ calc_condition' = None
    /\ UNCHANGED <<runs, botVars, max_moves, loopVars, execVars, req_board, turn_failed,
                   fail_streak, log_base, save_attempted, engineHist, emitted, probe>>

\* The operator interrupts the loop while it sleeps
KeyboardInterrupt ==
    /\ pc \in SleepPcs
    /\ pc' = "summary"
    /\ exit_reason' = "interrupt"
    /\ emitted' = [emitted EXCEPT !.outcome = exit_message("interrupt")]
    /\ calc_condition' = None
    /\ UNCHANGED <<runs, botVars, max_moves, moves_played, consecutive_failures,
                   current_board, best_move, execVars, req_board, turn_failed,
                   fail_streak, log_base, save_attempted, engineHist, probe>>

\* Final game summary; play_game_loop returns and its locals end
final_summary ==
    /\ pc = "summary"
    /\ pc' = "cleanup"
    /\ moves_played' = 0
    /\ consecutive_failures' = 0
    /\ current_board' = NewBoard
    /\ best_move' = Nothing
    /\ method_idx' = 1
    /\ exec_result' = FALSE
    /\ ui_actions' = <<>>
    /\ acted' = {}
    /\ invoked' = <<>>
    /\ req_board' = Nothing
    /\ turn_failed' = FALSE
    /\ calc_condition' = None
    /\ fail_streak' = 0
    /\ emitted' = [emitted EXCEPT !.summary = Some(summary_text(moves_played, current_board))]
    /\ UNCHANGED <<runs, botVars, max_moves, exit_reason, log_base, save_attempted, engineHist, probe>>

---------------------------------------------------------------------------
(* cleanup(), run()'s finally clause *)

\* Variant: the browser is closed before the engine, so that an error of
\* driver.quit() skips engine.quit()
cleanup_driver_first ==
    /\ pc = "cleanup"
    /\ \E engine_quit \in {"ok", "raise"}, driver_quit \in {"ok", "raise"} :
         LET driver_raised == driver # None /\ driver_quit = "raise"
             engine_raised == ~driver_raised /\ engine # None /\ engine_quit = "raise"
         IN  /\ driver' = IF driver # None /\ ~driver_raised THEN "closed" ELSE driver
             /\ engine' = IF engine # None /\ ~driver_raised /\ ~engine_raised
                          THEN "closed" ELSE engine
             /\ engine_quit_attempted' = (engine # None /\ ~driver_raised)
             /\ save_attempted' = (~engine_raised /\ ~driver_raised
                                   /\ log_moves /\ move_log # <<>>)
    /\ pc' = "idle"
    /\ UNCHANGED <<runs, log_moves, move_log, max_moves, loopVars, execVars, histVars,
                   engine_acquired, emitted, probe>>

\* cleanup(): one try block around engine.quit(), driver.quit() and
\* save_move_log(); an error in a step skips the steps after it
cleanup ==
    /\ pc = "cleanup"
    /\ \E engine_quit \in {"ok", "raise"}, driver_quit \in {"ok", "raise"} :
         LET engine_raised == engine # None /\ engine_quit = "raise"
             driver_raised == ~engine_raised /\ driver # None /\ driver_quit = "raise"
         IN  /\ engine' = IF engine # None /\ ~engine_raised THEN "closed" ELSE engine
             /\ driver' = IF driver # None /\ ~engine_raised /\ ~driver_raised
                          THEN "closed" ELSE driver
             /\ save_attempted' = (~engine_raised /\ ~driver_raised
                                   /\ log_moves /\ move_log # <<>>)
    /\ engine_quit_attempted' = (engine # None)
    /\ pc' = "idle"
    /\ UNCHANGED <<runs, log_moves, move_log, max_moves, loopVars, execVars, histVars,
                   engine_acquired, emitted, probe>>

---------------------------------------------------------------------------
Next ==
    \/ run
    \/ setup_browser
    \/ setup_engine
    \/ login
    \/ navigate_to_analysis_board
    \/ play_game_loop
    \/ loop_head
    \/ calculate_best_move
    \/ execute_move
    \/ apply_move
    \/ on_failure
    \/ wake
    \/ KeyboardInterrupt
    \/ final_summary
    \/ cleanup

Spec == Init /\ [][Next]_vars

\* The interpreter never stops executing an enabled step
FairSpec == Spec /\ WF_vars(Next)

---------------------------------------------------------------------------
(* The geometric fallback on its own: a square and a board rect are drawn,  *)
(* the square is resolved by position and its centre computed               *)

GeomInit ==
    /\ pc = "geometry"
    /\ runs = 0
    /\ log_moves \in BOOLEAN
    /\ move_log = <<>>
    /\ engine = None
    /\ driver = "open"
    /\ max_moves = 0
    /\ exit_reason = None
    /\ log_base = 0
    /\ save_attempted = FALSE
    /\ engine_acquired = 0
    /\ engine_quit_attempted = FALSE
    /\ emitted = NothingEmitted
    /\ NoLoopLocals
    /\ \E sq \in 0..63, rect \in BoardRects :
         probe = Some([sq |-> sq, rect |-> rect, out |-> Nothing])

\* find_square_by_position(square_name(sq)) followed by
\* get_square_center_coordinates on its result
resolve_by_position ==
    /\ pc = "geometry"
    /\ probe # Nothing
    /\ probe[1].out = Nothing
    /\ LET square_info == find_square_by_position(square_name(probe[1].sq), TRUE)
       IN  probe' = Some([probe[1] EXCEPT
                            !.out = Some(get_square_center_coordinates(
                                           square_info[1], Some(probe[1].rect)))])
    /\ UNCHANGED <<pc, runs, botVars, max_moves, loopVars, execVars, histVars,
                   save_attempted, engineHist, emitted>>

GeomNext == resolve_by_position

GeomSpec == GeomInit /\ [][GeomNext]_vars

---------------------------------------------------------------------------
(* One strategy on its own: a move and an answer of the page are drawn and  *)
(* the strategy is run once against them                                    *)

StrategyInit(name, answers) ==
    /\ pc = name
    /\ runs = 0
    /\ log_moves \in BOOLEAN
    /\ move_log = <<>>
    /\ engine = None
    /\ driver = "open"
    /\ max_moves = 0
    /\ exit_reason = None
    /\ log_base = 0
    /\ save_attempted = FALSE
    /\ engine_acquired = 0
    /\ engine_quit_attempted = FALSE
    /\ emitted = NothingEmitted
    /\ NoLoopLocals
    /\ \E move \in Moves, ans \in answers :
         probe = Some([move |-> move, ans |-> ans, out |-> Nothing])

---------------------------------------------------------------------------
(* A further run() on the same bot object (continuous play): the bot has    *)
(* finished a first run of one move, executed by the pointer drag            *)

FirstRunMove == Mv(48, 56, "q")

AfterFirstRun ==
    /\ pc = "idle"
    /\ runs = 1
    /\ log_moves \in BOOLEAN
    /\ move_log = IF log_moves THEN <<move_entry(FirstRunMove, "drag_drop")>> ELSE <<>>
    /\ engine = "closed"
    /\ driver = "closed"
    /\ max_moves = 1
    /\ exit_reason = "limit"
    /\ log_base = 0
    /\ save_attempted = log_moves
    /\ engine_acquired = 1
    /\ engine_quit_attempted = TRUE
    /\ emitted = [outcome |-> exit_message("limit"),
                  summary |-> Some(summary_text(1, push(NewBoard, FirstRunMove)))]
    /\ probe = Nothing
    /\ NoLoopLocals

\* Variant: a run starts with an empty move log
run_again_with_new_log ==
    /\ pc = "idle"
    /\ runs = 1
    /\ \E mm \in 0..MaxMoves : max_moves' = mm
    /\ runs' = runs + 1
    /\ move_log' = <<>>
    /\ save_attempted' = FALSE
    /\ engine_acquired' = 0
    /\ engine_quit_attempted' = FALSE
    /\ emitted' = NothingEmitted
    /\ pc' = "setup_browser"
    /\ UNCHANGED <<log_moves, engine, driver, loopVars, execVars, histVars, probe>>

\* run() is entered once more on the same object
run_again ==
    /\ pc = "idle"
    /\ runs = 1
    /\ \E mm \in 0..MaxMoves : max_moves' = mm
    /\ runs' = runs + 1
    /\ save_attempted' = FALSE
    /\ engine_acquired' = 0
    /\ engine_quit_attempted' = FALSE
    /\ emitted' = NothingEmitted
    /\ pc' = "setup_browser"
    /\ UNCHANGED <<botVars, loopVars, execVars, histVars, probe>>

RerunNext ==
    \/ run_again
    \/ setup_browser
    \/ setup_engine
    \/ login
    \/ navigate_to_analysis_board
    \/ play_game_loop
    \/ loop_head
    \/ calculate_best_move
    \/ execute_move
    \/ apply_move
    \/ on_failure
    \/ wake
    \/ KeyboardInterrupt
    \/ final_summary
    \/ cleanup

RerunSpec == AfterFirstRun /\ [][RerunNext]_vars

---------------------------------------------------------------------------
(* One execute_move call on its own: the first turn of a game loop, the     *)
(* engine's move in hand; the answers the page gives to the strategies are  *)
(* kept in `probe'                                                          *)

ExecInit ==
    /\ pc = "exec"
    /\ runs = 1
    /\ log_moves \in BOOLEAN
    /\ move_log = <<>>
    /\ engine = "open"
    /\ driver = "open"
    /\ max_moves \in 1..MaxMoves
    /\ moves_played = 0
    /\ consecutive_failures = 0
    /\ current_board = NewBoard
    /\ best_move \in { Some(m) : m \in Moves }
    /\ exit_reason = None
    /\ method_idx = 1
    /\ exec_result = FALSE
    /\ ui_actions = <<>>
    /\ acted = {}
    /\ invoked = <<>>
    /\ req_board = Some(NewBoard)
    /\ turn_failed = FALSE
    /\ fail_streak = 0
    /\ log_base = 0
    /\ calc_condition = "move"
    /\ save_attempted = FALSE
    /\ engine_acquired = 1
    /\ engine_quit_attempted = FALSE
    /\ emitted = NothingEmitted
    /\ probe = Some([answers |-> <<>>])

\* execute_move's for loop, the answer given to each method recorded
execute_move_on_page ==
    /\ probe # Nothing
    /\ \E ans \in MethodAnswers(method_idx) :
         /\ try_method(ans)
         /\ probe' = Some([answers |-> Append(probe[1].answers, ans)])

ExecNext == execute_move_on_page \/ apply_move \/ on_failure

ExecSpec == ExecInit /\ [][ExecNext]_vars

---------------------------------------------------------------------------
(* Square resolution on its own: a square and a page are drawn and the      *)
(* square is resolved once, by find_square_element or as the pointer-drag   *)
(* strategy resolves its two squares                                        *)

LocatorSquares == UNION { {m.from_square, m.to_square} : m \in Moves }

LocatorInit ==
    /\ pc = "locate"
    /\ runs = 0
    /\ log_moves \in BOOLEAN
    /\ move_log = <<>>
    /\ engine = None
    /\ driver = "open"
    /\ max_moves = 0
    /\ exit_reason = None
    /\ log_base = 0
    /\ save_attempted = FALSE
    /\ engine_acquired = 0
    /\ engine_quit_attempted = FALSE
    /\ emitted = NothingEmitted
    /\ NoLoopLocals
    /\ \E sq \in LocatorSquares, page \in LocatorPages :
         probe = Some([sq |-> sq, page |-> page, by |-> None, out |-> Nothing])

\* find_square_element(square_name(sq))
locate_square ==
    /\ pc = "locate"
    /\ probe # Nothing
    /\ probe[1].out = Nothing
    /\ probe' = Some([probe[1] EXCEPT
                        !.by = "find_square_element",
                        !.out = Some(find_square_element(square_name(probe[1].sq), probe[1].page))])
    /\ UNCHANGED <<pc, runs, botVars, max_moves, loopVars, execVars, histVars,
                   save_attempted, engineHist, emitted>>

\* The resolution of one square in execute_move_with_drag_drop
locate_for_drag_drop ==
    /\ pc = "locate"
    /\ probe # Nothing
    /\ probe[1].out = Nothing
    /\ probe' = Some([probe[1] EXCEPT
                        !.by = "drag_drop",
                        !.out = Some(drag_drop_resolution(square_name(probe[1].sq), probe[1].page))])
    /\ UNCHANGED <<pc, runs, botVars, max_moves, loopVars, execVars, histVars,
                   save_attempted, engineHist, emitted>>

LocatorNext == locate_square \/ locate_for_drag_drop

LocatorSpec == LocatorInit /\ [][LocatorNext]_vars

DragInit == StrategyInit("drag_drop", DragPageAnswers)

\* execute_move_with_drag_drop(move) against the drawn answer
try_drag_drop ==
    /\ pc = "drag_drop"
    /\ probe # Nothing
    /\ probe[1].out = Nothing
    /\ probe' = Some([probe[1] EXCEPT
                        !.out = Some(execute_move_with_drag_drop(probe[1].move, probe[1].ans))])
    /\ UNCHANGED <<pc, runs, botVars, max_moves, loopVars, execVars, histVars,
                   save_attempted, engineHist, emitted>>

DragNext == try_drag_drop

DragSpec == DragInit /\ [][DragNext]_vars

JsInit == StrategyInit("javascript", JsPageAnswers)

\* execute_move_with_javascript(move) against the drawn answer
try_javascript ==
    /\ pc = "javascript"
    /\ probe # Nothing
    /\ probe[1].out = Nothing
    /\ probe' = Some([probe[1] EXCEPT
                        !.out = Some(execute_move_with_javascript(probe[1].move, probe[1].ans))])
    /\ UNCHANGED <<pc, runs, botVars, max_moves, loopVars, execVars, histVars,
                   save_attempted, engineHist, emitted>>

JsNext == try_javascript

JsSpec == JsInit /\ [][JsNext]_vars

---------------------------------------------------------------------------
(* Properties *)

\* Vocabulary of the properties, stated independently of the operators above
StrategyPriority == <<"drag_drop", "javascript", "keyboard">>
GameResults == {"1-0", "0-1", "1/2-1/2"}
PositionIsOver(b) ==
    /\ Len(b.move_stack) > 0
    /\ b.move_stack[Len(b.move_stack)] \in MatingMoves \cup StalematingMoves

\* C1: when execute_move has failed 3 times in a row the loop has stopped
\* (aborted for too many failures): it does not go on to a 4th call, and an
\* abort for too many failures happens only at the 3rd failure in a row.
C1_AbortsAtThirdFailure ==
    /\ fail_streak >= 3 => (pc = "summary" /\ exit_reason = "failures")
    /\ (pc = "summary" /\ exit_reason = "failures") => fail_streak = 3

\* C2: every run of play_game_loop eventually leaves the loop, whatever the
\* engine and execute_move answer.
C2_LoopTerminates == (pc = "head") ~> (pc = "summary")

\* C3: an engine answer of None on a position that is not game-over
\* increments the consecutive-failure counter.
C3_NoneCountsAsFailure ==
    [][(pc = "think" /\ ~PositionIsOver(current_board) /\ pc' = "sleep_none")
         => consecutive_failures' = consecutive_failures + 1]_vars

\* C4: in one execute_move call the strategies invoked so far are an initial
\* part of drag_drop, javascript, keyboard, in that order, and every one but
\* the last invoked reported failure.
C4_StrategyOrder ==
    /\ Len(invoked) <= Len(StrategyPriority)
    /\ \A i \in 1..Len(invoked) : invoked[i][1] = StrategyPriority[i]
    /\ \A i \in 1..(Len(invoked) - 1) : invoked[i][2] = FALSE
    /\ (pc = "exec" /\ Len(invoked) > 0) => invoked[Len(invoked)][2] = FALSE

C4_Witness ==
    /\ pc = "exec_ret"
    /\ invoked = << <<"drag_drop", FALSE>>, <<"javascript", FALSE>>, <<"keyboard", TRUE>> >>

\* C5: an iteration that starts on a game-over position leaves the loop in
\* that step with the game result as outcome, makes no engine request and
\* starts no execute_move call; no engine request and no execute_move call
\* is ever made on a game-over position.
C5_GameOverIsTerminal ==
    /\ [][(pc = "head" /\ moves_played < max_moves /\ PositionIsOver(current_board))
            => /\ pc' = "summary"
               /\ exit_reason' \in GameResults
               /\ req_board' = req_board
               /\ invoked' = invoked]_vars
    /\ [](pc \in {"exec", "exec_ret"} => ~PositionIsOver(current_board))
    /\ [](req_board # Nothing => ~PositionIsOver(req_board[1]))

C5_Witness ==
    /\ pc = "summary"
    /\ exit_reason \in GameResults
    /\ PositionIsOver(current_board)
    /\ moves_played < max_moves

\* C6: the board of a game loop changes only in the step that follows an
\* execute_move call that returned True, and then by exactly the move the
\* engine returned for the board as it is at that step (the board starts
\* anew when play_game_loop is entered and ends when it returns).
C6_MoveAppliedToItsPosition ==
    [][current_board' # current_board
         => \/ /\ pc = "exec_ret"
               /\ exec_result
               /\ best_move # Nothing
               /\ req_board = Some(current_board)
               /\ current_board'.move_stack = Append(current_board.move_stack, best_move[1])
            \/ pc \in {"loop_start", "summary"} /\ current_board'.move_stack = <<>>]_vars

C6_Witness ==
    /\ pc = "sleep_next"
    /\ Len(current_board.move_stack) = 2
    /\ current_board.move_stack[2] = best_move[1]

\* C7: a failed execute_move call or an engine answer of None leaves the
\* board and the count of moves played unchanged, and the engine request
\* that follows a failed turn is made for the same board as the one before.
C7_FailureKeepsPosition ==
    /\ [][((pc = "exec_ret" /\ ~exec_result) \/ (pc = "think" /\ pc' = "sleep_none"))
            => (current_board' = current_board /\ moves_played' = moves_played)]_vars
    /\ [][(pc = "think" /\ turn_failed /\ req_board # Nothing /\ req_board' # Nothing)
            => (req_board' = req_board /\ req_board' = Some(current_board))]_vars

C7_Witness ==
    /\ pc = "exec"
    /\ turn_failed
    /\ fail_streak >= 1
    /\ moves_played = 1
    /\ req_board = Some(current_board)

\* The text of the moves on the board, and of the records of a log
AppliedMoves(b) == [i \in 1..Len(b.move_stack) |-> uci(b.move_stack[i])]
LoggedMoves(log) == [i \in 1..Len(log) |-> log[i].move]

\* C8 as stated: at the end of a run the moves of the log are the moves
\* applied to the board, once each and in order, with a method of the three.
C8_LogIsAppliedMoves ==
    pc = "summary"
      => /\ LoggedMoves(move_log) = AppliedMoves(current_board)
         /\ \A i \in 1..Len(move_log) : move_log[i].method \in {"drag_drop", "javascript", "keyboard"}

\* C8 as amended: at the end of a run with move logging enabled, the records
\* appended during the run are the moves applied to the board in that run,
\* once each and in order, with a method of the three; with move logging
\* disabled the run appends nothing.
C8_RunLogIsAppliedMoves ==
    pc = "summary"
      => /\ log_base <= Len(move_log)
         /\ IF log_moves
            THEN LoggedMoves(SubSeq(move_log, log_base + 1, Len(move_log)))
                   = AppliedMoves(current_board)
            ELSE Len(move_log) = log_base
         /\ \A i \in 1..Len(move_log) : move_log[i].method \in {"drag_drop", "javascript", "keyboard"}

C8_Witness ==
    /\ pc = "summary"
    /\ log_moves
    /\ Len(current_board.move_stack) = 2
    /\ Len(move_log) = log_base + 2
    /\ move_log[log_base + 1].method # move_log[log_base + 2].method

\* C9: in one execute_move call at most one strategy dispatches an action
\* on the board UI.
C9_AtMostOneStrategyActs == Cardinality(acted) <= 1

\* C10: when a run has ended with move logging enabled and a non-empty log,
\* the write of the log was attempted.
C10_LogSavedOnEveryExit ==
    (pc = "idle" /\ runs > 0 /\ log_moves /\ move_log # <<>>) => save_attempted

\* C11: setup_engine starts at most one engine process per run; when a run
\* that started one has ended, cleanup has called engine.quit(); an engine
\* request is made only on the open engine of the current run, before that
\* call.
C11_EngineReleasedOnEveryExit ==
    /\ engine_acquired <= 1
    /\ (pc = "idle" /\ runs > 0 /\ engine_acquired > 0) => engine_quit_attempted
    /\ pc = "think" => (engine = "open" /\ engine_acquired = 1 /\ ~engine_quit_attempted)

C11_Witness ==
    /\ pc = "idle"
    /\ exit_reason = None
    /\ engine_acquired = 1
    /\ engine_quit_attempted
    /\ driver = "open"

\* The square and the rect of a probe whose result is there
Probed == probe # Nothing /\ probe[1].out # Nothing
ProbeFile == probe[1].sq % 8
ProbeRank == probe[1].sq \div 8

\* C12 as stated: the offsets returned for square (f, r) of a W x H board
\* are exactly f*(W/8) + W/16 and (7-r)*(H/8) + H/16.
C12_CenterIsExact ==
    Probed
      => /\ 16 * probe[1].out[1][1] = (2 * ProbeFile + 1) * probe[1].rect.width
         /\ 16 * probe[1].out[1][2] = (2 * (7 - ProbeRank) + 1) * probe[1].rect.height

\* C12 as amended: the offsets returned are f*(W/8) + W/16 and
\* (7-r)*(H/8) + H/16 with the fraction cut off (whole pixels); they are the
\* exact values when W and H are multiples of 16.
C12_CenterIsTruncated ==
    Probed
      => LET x == probe[1].out[1][1]
             y == probe[1].out[1][2]
             x16 == (2 * ProbeFile + 1) * probe[1].rect.width
             y16 == (2 * (7 - ProbeRank) + 1) * probe[1].rect.height
         IN  /\ 16 * x <= x16 /\ x16 < 16 * (x + 1)
             /\ 16 * y <= y16 /\ y16 < 16 * (y + 1)
             /\ (probe[1].rect.width % 16 = 0) => 16 * x = x16
             /\ (probe[1].rect.height % 16 = 0) => 16 * y = y16

C12_Witness ==
    /\ Probed
    /\ probe[1].sq = 63
    /\ probe[1].rect = [width |-> 100, height |-> 800]
    /\ probe[1].out = Some(<<93, 50>>)

\* C13: White is to move on the loop's board exactly when the number of
\* moves applied is even, also on the board of every engine request; the
\* side to move flips in the step that applies a move and in no other step
\* of the loop.
C13_RequestForSideToMove ==
    /\ [](current_board.turn = (moves_played % 2 = 0))
    /\ [](req_board # Nothing
            => req_board[1].turn = (Len(req_board[1].move_stack) % 2 = 0))
    /\ [][(pc # "summary" /\ current_board'.turn # current_board.turn)
            => (pc = "exec_ret" /\ exec_result /\ moves_played' = moves_played + 1)]_vars
    /\ [][(pc = "exec_ret" /\ exec_result) => current_board'.turn # current_board.turn]_vars

C13_Witness ==
    /\ pc = "exec"
    /\ req_board = Some(current_board)
    /\ ~current_board.turn
    /\ turn_failed
    /\ moves_played = 1

\* Outcome messages a reader of the log can tell apart
GameResultMessages ==
    {"Game Over: White wins!", "Game Over: Black wins!", "Game Over: Draw!"}
FailureAbortMessage == "Too many move execution failures, stopping"

\* C14: the number of applied moves never exceeds max_moves, and when the
\* loop is left because max_moves moves were played, the run reports an
\* outcome of its own, which is neither the failure abort nor a game result.
C14_LimitReachedIsDistinct ==
    /\ moves_played <= max_moves
    /\ Len(current_board.move_stack) <= max_moves
    /\ (pc = "summary" /\ exit_reason = "limit")
         => emitted.outcome \notin ({None, FailureAbortMessage} \cup GameResultMessages)

\* The loop of the current run has been left
LoopLeft == pc = "summary" \/ (pc \in {"cleanup", "idle"} /\ emitted.summary # Nothing)

\* C15: once the loop is left, the run makes no further engine request, move
\* execution or board change, and the final summary emitted gives the moves
\* played, the final position and the outcome.
C15_AbsorbingWithSummary ==
    /\ [][(LoopLeft /\ runs' = runs)
            => /\ pc' \in {"cleanup", "idle"}
               /\ req_board' = Nothing
               /\ ui_actions' = <<>>
               /\ acted' = {}
               /\ (pc = "summary"
                     => emitted'.summary = Some(summary_text(moves_played, current_board)))
               /\ (pc # "summary" => emitted' = emitted)]_vars
    /\ []((pc \in {"cleanup", "idle"} /\ exit_reason # None /\ runs > 0 /\ emitted # NothingEmitted)
            => /\ emitted.summary # Nothing
               /\ emitted.summary[1].final_position # Nothing
               /\ emitted.outcome # None)

\* What calculate_best_move returns when the engine reports no move or the
\* position is game over
NoMoveReturned == Nothing

\* C16: when the engine request of calculate_best_move raised, the value the
\* caller receives differs from the one it receives when the engine reports
\* no move or the position is game over.
C16_EngineFailureIsDistinct ==
    /\ calc_condition \in {"no_move", "game_over"} => best_move = NoMoveReturned
    /\ calc_condition = "raise" => best_move # NoMoveReturned

\* C17: at every check of the abort threshold the consecutive-failure
\* counter equals the number of failed execute_move calls since the last
\* applied move (or the start of the loop), and inside the loop the counter
\* goes back to zero only in the step that applies a move.
C17_CounterIsFailedTurns ==
    /\ [][(pc = "exec_ret" /\ ~exec_result)
            => consecutive_failures' = fail_streak']_vars
    /\ [][(pc \notin {"loop_start", "summary"}
             /\ consecutive_failures # 0 /\ consecutive_failures' = 0)
            => (pc = "exec_ret" /\ exec_result)]_vars

\* C18: whenever the loop is left, other than by an interrupt of the
\* operator, with a position that is game over, the outcome reported is the
\* game result of that position, also when the move that ended the game was
\* the max_moves-th applied move.
C18_GameOverIsClassified ==
    (pc = "summary" /\ exit_reason # "interrupt" /\ PositionIsOver(current_board))
      => /\ emitted.outcome \in GameResultMessages
         /\ LastMove(current_board) \in MatingMoves
              => emitted.outcome = (IF current_board.turn THEN "Game Over: Black wins!"
                                    ELSE "Game Over: White wins!")
         /\ LastMove(current_board) \in StalematingMoves
              => emitted.outcome = "Game Over: Draw!"

\* The strategy probed has run
StrategyProbed(name) == pc = name /\ probe # Nothing /\ probe[1].out # Nothing

\* The x offset of a square on a board of the given rect is 0: the rect
\* cannot be read or the centre of the square is left of pixel 1
XOffsetIsZero(sq, rect) ==
    rect = Nothing \/ (2 * (sq % 8) + 1) * rect[1].width < 16

\* C19: when the pointer-drag strategy does not resolve the origin or the
\* destination, or a computed x offset is 0, it reports failure and has
\* dispatched no pointer action, whatever the rest of the page would answer.
C19_NoPartialDrag ==
    StrategyProbed("drag_drop")
      => LET ans == probe[1].ans
             move == probe[1].move
             out == probe[1].out[1]
             unresolved == \/ ~ans.from_found
                           \/ ~ans.to_found
                           \/ XOffsetIsZero(move.from_square, ans.rect)
                           \/ XOffsetIsZero(move.to_square, ans.rect)
         IN  /\ unresolved => (~out.ok /\ out.acts = <<>>)
             /\ out.acts # <<>> => ~unresolved

C19_Witness ==
    /\ StrategyProbed("drag_drop")
    /\ probe[1].ans.from_found
    /\ ~probe[1].ans.to_found
    /\ probe[1].ans.rect # Nothing
    /\ probe[1].ans.scroll = "ok"
    /\ probe[1].ans.sent = 4
    /\ probe[1].out = Some([ok |-> FALSE, acts |-> <<>>])

\* Order of the sub-attempts of the scripted-injection strategy
SubAttemptRank(act) ==
    IF act = "game.move" THEN 1 ELSE IF act = "board.move" THEN 2 ELSE 3

\* C20: the scripted-injection strategy tries (a) game.move, (b) board.move,
\* (c) the per-square events in this order; (b) is tried only when (a) is
\* absent or returned a falsy result, (c) only when the same holds of (b)
\* as well; the strategy reports success exactly when a sub-attempt it
\* tried returned a truthy result (for (c): both squares were found).
C20_SubAttemptOrder ==
    StrategyProbed("javascript")
      => LET ans == probe[1].ans
             out == probe[1].out[1]
             called(act) == \E i \in DOMAIN out.acts : out.acts[i].act = act
             reached == ans.script = "ok" /\ ans.root
             a_tried == reached /\ ans.game # "absent"
             a_passed == reached /\ ans.game \in {"absent", "falsy"}
             b_tried == a_passed /\ ans.board # "absent"
             b_passed == a_passed /\ ans.board \in {"absent", "falsy"}
             c_tried == b_passed /\ ans.squares
         IN  /\ called("game.move") <=> a_tried
             /\ called("board.move") <=> b_tried
             /\ called("mousedown") <=> c_tried
             /\ called("mouseup") <=> c_tried
             /\ \A i, j \in DOMAIN out.acts :
                  i < j => SubAttemptRank(out.acts[i].act) <= SubAttemptRank(out.acts[j].act)
             /\ out.ok <=> \/ (a_tried /\ ans.game = "truthy")
                           \/ (b_tried /\ ans.board = "truthy")
                           \/ c_tried

C20_Witness ==
    /\ StrategyProbed("javascript")
    /\ probe[1].ans.game = "falsy"
    /\ probe[1].ans.board = "truthy"
    /\ probe[1].ans.squares
    /\ probe[1].out[1].ok
    /\ Len(probe[1].out[1].acts) = 2
    /\ probe[1].out[1].acts[1].act = "game.move"
    /\ probe[1].out[1].acts[2].act = "board.move"

\* The selector patterns in the order the locator is to try them
SelectorPatterns(name) ==
    << "[data-square='" \o name \o "']", ".square-" \o name, "#" \o name,
       "[class*='" \o name \o "']" >>

\* C21: in every square resolution, the two of the pointer-drag strategy
\* included, the lookups made are the selector patterns in their order, up
\* to the first one that gives a displayed element, which is the result; the
\* board root is looked up for the geometric fallback only after all four
\* patterns were tried and none matched.
C21_SelectorsBeforeFallback ==
    (pc = "locate" /\ probe # Nothing /\ probe[1].out # Nothing)
      => LET page == probe[1].page
             out == probe[1].out[1]
             patterns == SelectorPatterns(square_name(probe[1].sq))
             n == Len(out.queries)
         IN  /\ n >= 1
             /\ \A i \in 1..n : i <= 4 => out.queries[i] = patterns[i]
             /\ \A i \in 1..(n - 1) : i <= 4 => page.sel[i] # "displayed"
             /\ (n <= 4 /\ page.sel[n] = "displayed")
                  => out.result = Some([element |-> patterns[n]])
             /\ (\E i \in 1..n : out.queries[i] = "wc-chess-board")
                  => (n = 5 /\ \A i \in 1..4 : page.sel[i] # "displayed")

\* The answers given in the execute_move call observed
ExecAnswers == IF probe = Nothing THEN <<>> ELSE probe[1].answers

\* The page's answer to the i-th strategy says the board root was not found
RootMissing(i, ans) ==
    IF StrategyPriority[i] = "drag_drop" THEN ~ans.from_found /\ ~ans.to_found
    ELSE IF StrategyPriority[i] = "javascript" THEN ans.script = "ok" /\ ~ans.root
    ELSE ans = "no_root"

RootMissingThroughout ==
    /\ ExecAnswers # <<>>
    /\ \A i \in DOMAIN ExecAnswers : RootMissing(i, ExecAnswers[i])

\* C22: in an execute_move call in which no strategy finds the board root,
\* every strategy is invoked once, in order, and fails; no UI action is
\* dispatched, no log record is appended, the call returns failure and the
\* board is left as it was.
C22_RootMissingFailsCleanly ==
    (pc \in {"exec", "exec_ret", "sleep_fail"} /\ RootMissingThroughout)
      => /\ pc # "sleep_fail" => Len(invoked) = Len(ExecAnswers)
         /\ \A i \in DOMAIN invoked : invoked[i] = <<StrategyPriority[i], FALSE>>
         /\ acted = {}
         /\ ui_actions = <<>>
         /\ move_log = <<>>
         /\ current_board = NewBoard
         /\ pc = "exec" => Len(invoked) < 3
         /\ pc = "exec_ret" => (Len(invoked) = 3 /\ ~exec_result)

C22_Witness ==
    /\ pc = "exec_ret"
    /\ RootMissingThroughout
    /\ Len(ExecAnswers) = 3
    /\ log_moves
    /\ ~exec_result

\* s is an initial part of t
IsPrefix(s, t) == Len(s) <= Len(t) /\ \A i \in DOMAIN s : t[i] = s[i]

\* C23: every step of the program, in a first or in a further run, leaves
\* the records of the move log as they are and in their order; the log
\* changes only in the step in which a strategy of execute_move succeeds,
\* and then by exactly one record added at its end.
C23_LogIsAppendOnly ==
    /\ [][IsPrefix(move_log, move_log')]_vars
    /\ [][move_log' # move_log
            => /\ pc = "exec" /\ pc' = "exec_ret" /\ exec_result'
               /\ Len(move_log') = Len(move_log) + 1
               /\ move_log'[Len(move_log')].method \in
                    {StrategyPriority[i] : i \in DOMAIN StrategyPriority}]_vars

C23_Witness ==
    /\ pc = "idle"
    /\ runs = 2
    /\ Len(move_log) = 3
    /\ move_log[1].method = "drag_drop"
    /\ move_log[2].method = "keyboard"
    /\ move_log[3].method = "javascript"
    /\ save_attempted

\* Positions of the program inside the while loop of play_game_loop
InLoop == pc \in {"head", "think", "exec", "exec_ret", "sleep_none", "sleep_next", "sleep_fail"}

\* C24: inside the loop the moves-played counter is the number of moves on
\* the loop's board and lies between 0 and max_moves; within a loop it never
\* decreases and it changes only by 1, in the step that follows an
\* execute_move call that returned success.
C24_CounterIsBoardLength ==
    /\ []((InLoop \/ pc = "summary")
            => /\ moves_played = Len(current_board.move_stack)
               /\ 0 <= moves_played /\ moves_played <= max_moves)
    /\ [][(InLoop /\ moves_played' # moves_played)
            => /\ pc = "exec_ret" /\ exec_result
               /\ moves_played' = moves_played + 1]_vars
    /\ [][(pc = "exec_ret" /\ exec_result) => moves_played' = moves_played + 1]_vars

C24_Witness ==
    /\ pc = "head"
    /\ max_moves = 2
    /\ moves_played = 2
    /\ Len(current_board.move_stack) = 2
    /\ turn_failed = FALSE

\* The page's answer to the i-th strategy makes a call inside the strategy
\* raise
StrategyRaised(i, ans) ==
    IF StrategyPriority[i] = "drag_drop"
    THEN /\ ans.from_found /\ ans.to_found /\ ans.rect # Nothing
         /\ (ans.scroll = "raise" \/ ans.sent < 4)
    ELSE IF StrategyPriority[i] = "javascript" THEN ans.script = "raise"
    ELSE ans \in {"no_root", "click_raise", "keys_raise"}

\* C25: execute_move returns True exactly when one of the strategies it
\* invoked reported success; a strategy in which a call raised counts as
\* failed and the next strategy is tried after it; the call always comes
\* back to the loop with a result.
C25_SuccessIffSomeStrategy ==
    /\ [](pc \in {"exec", "exec_ret"}
            => /\ Len(invoked) = Len(ExecAnswers)
               /\ \A i \in DOMAIN invoked :
                    /\ StrategyRaised(i, ExecAnswers[i]) => ~invoked[i][2]
                    /\ (~invoked[i][2] /\ i < 3) => (pc = "exec_ret" => Len(invoked) > i)
               /\ pc = "exec" => \A i \in DOMAIN invoked : ~invoked[i][2]
               /\ pc = "exec_ret"
                    => (exec_result <=> \E i \in DOMAIN invoked : invoked[i][2]))
    /\ [][pc = "exec" => pc' \in {"exec", "exec_ret"}]_vars

C25_Witness ==
    /\ pc = "exec_ret"
    /\ Len(ExecAnswers) = 3
    /\ StrategyRaised(1, ExecAnswers[1])
    /\ ExecAnswers[1].sent = 2
    /\ StrategyRaised(2, ExecAnswers[2])
    /\ ExecAnswers[3] = "ok"
    /\ exec_result

\* C26: an execute_move call fails only if the notation-entry strategy was
\* reached and the board root was not found or a dispatch raised; when the
\* root is found and click and keystrokes raise nothing the call returns
\* True, having sent the click, the two square names and ENTER, and the
\* loop then pushes the engine's move on its board and counts it.
C26_KeyboardAlwaysSucceeds ==
    /\ []((pc = "exec_ret" /\ ~exec_result)
            => (Len(ExecAnswers) = 3 /\ ExecAnswers[3] # "ok"))
    /\ []((pc = "exec_ret" /\ Len(ExecAnswers) = 3 /\ ExecAnswers[3] = "ok")
            => /\ exec_result
               /\ invoked[3] = <<"keyboard", TRUE>>
               /\ Len(ui_actions) = 3
               /\ ui_actions[2].arg = square_name(best_move[1].from_square)
                                        \o square_name(best_move[1].to_square)
               /\ ui_actions[3].arg = "ENTER")
    /\ [][(pc = "exec_ret" /\ exec_result)
            => /\ current_board'.move_stack = Append(current_board.move_stack, best_move[1])
               /\ moves_played' = moves_played + 1]_vars

C26_Witness ==
    /\ pc = "sleep_next"
    /\ Len(ExecAnswers) = 3
    /\ ExecAnswers[1].sent = 3
    /\ ExecAnswers[2].game = "throws"
    /\ ExecAnswers[3] = "ok"
    /\ current_board.move_stack = <<best_move[1]>>
    /\ moves_played = 1

\* The promotion field of a move: none, or a piece
PromotionPieces == {"", "q", "r", "b", "n"}

\* C27: the UI actions a strategy dispatches for a move are the ones it
\* dispatches, against the same page, for the move with the same origin and
\* destination and any other promotion piece, and name nothing but the two
\* squares; the record logged and the move pushed on the board carry the
\* promotion piece.
C27_UiIgnoresPromotion ==
    /\ []((pc \in {"exec", "exec_ret"} /\ invoked # <<>>)
            => LET i == Len(invoked)
                   from == square_name(best_move[1].from_square)
                   to == square_name(best_move[1].to_square)
               IN  /\ \A p \in PromotionPieces :
                        RunMethod(i, [best_move[1] EXCEPT !.promotion = p], ExecAnswers[i]).acts
                          = ui_actions
                   /\ \A k \in DOMAIN ui_actions :
                        ui_actions[k].arg \in {from, to, from \o to, "board", "ENTER"})
    /\ []((pc = "exec_ret" /\ exec_result /\ log_moves)
            => move_log[Len(move_log)].move
                 = square_name(best_move[1].from_square)
                     \o square_name(best_move[1].to_square) \o best_move[1].promotion)
    /\ [][(pc = "exec_ret" /\ exec_result)
            => current_board'.move_stack[Len(current_board'.move_stack)] = best_move[1]]_vars

C27_Witness ==
    /\ pc = "exec_ret"
    /\ exec_result
    /\ log_moves
    /\ best_move[1].promotion = "n"
    /\ move_log[Len(move_log)].move = "a7a8n"
    /\ Len(ui_actions) = 3
    /\ ui_actions[2].arg = "a7a8"

=============================================================================
